---- MODULE Spec2Model ----
(***************************************************************************)
(* Model of sdk/helper/storagepacker/ids2keys.go: the addressing and       *)
(* ordering helpers of StoragePackerV2.                                    *)
(*                                                                         *)
(* A Go string is a sequence of one-character strings drawn from Alphabet, *)
(* which lists the characters in their byte order, so that Go's string     *)
(* comparison (bytewise lexicographic) is StrLess.  An ID is an opaque     *)
(* string of which only equality is used.                                  *)
(***************************************************************************)
EXTENDS Integers, Sequences, FiniteSets, TLC

VARIABLES
    status,          \* "new" | "ready" | "rejected": outcome of the constructor
    BaseBucketBits,  \* s.BaseBucketBits of the constructed packer
    build,           \* which sort.Slice implementation the toolchain links
    call,            \* the latest call of a helper: its arguments and results
    pc,              \* per batch operation: its position
    batch,           \* per batch operation: ids, requests, sorted requests
    next,            \* per batch operation: index of the next lock to take
    locks            \* the bucket locks held: a set of <<bucket, owner>>

packerVars == <<status, BaseBucketBits, build>>
lockVars == <<pc, batch, next, locks>>
vars == <<status, BaseBucketBits, build, call, pc, batch, next, locks>>

---------------------------------------------------------------------------
(* Bounds of the model *)

\* longest string given to firstKey and GetCacheKey
MaxStrLen == 3
\* longest list of IDs given to keysForIDs and keysForItems
MaxBatch == 7
\* longest list of IDs given to checkForDuplicateIds
MaxIds == 4
\* longest list of IDs of a concurrent batch operation
MaxLockBatch == 2
\* largest BaseBucketBits a configuration asks for
MaxBits == 12

---------------------------------------------------------------------------
(* Strings *)

\* the characters of the model, in byte order: '/' < '0'..'9' < 'a'..'f'
Alphabet ==
    <<"/", "0", "1", "2", "3", "4", "5", "6", "7", "8", "9",
      "a", "b", "c", "d", "e", "f">>

Ord(c) == CHOOSE i \in 1..Len(Alphabet) : Alphabet[i] = c

Slash == Alphabet[1]

\* digit d (0..15) as printed by the %x verb
HexChar(d) == Alphabet[d + 2]

Min(a, b) == IF a < b THEN a ELSE b

\* Go's s < t on strings
RECURSIVE StrLess(_, _)
StrLess(s, t) ==
    IF t = <<>> THEN FALSE
    ELSE IF s = <<>> THEN TRUE
    ELSE IF s[1] # t[1] THEN Ord(s[1]) < Ord(t[1])
    ELSE StrLess(Tail(s), Tail(t))

\* Go's integer division, which truncates toward zero
GoDiv(a, b) == IF a >= 0 THEN a \div b ELSE -((-a) \div b)

\* int(math.Pow(2.0, float64(n))): a fraction below one truncates to zero
RECURSIVE Pow2(_)
Pow2(n) == IF n < 0 THEN 0 ELSE IF n = 0 THEN 1 ELSE 2 * Pow2(n - 1)

\* the hexadecimal digits of i, most significant first, at least one
RECURSIVE HexDigits(_)
HexDigits(i) ==
    IF i < 16 THEN <<HexChar(i)>>
    ELSE Append(HexDigits(i \div 16), HexChar(i % 16))

RECURSIVE ZeroPad(_, _)
ZeroPad(width, s) ==
    IF Len(s) >= width THEN s ELSE ZeroPad(width, <<HexChar(0)>> \o s)

\* fmt.Sprintf("%0<width>x", i): width is a minimum, never a truncation
SprintfHex(width, i) == ZeroPad(width, HexDigits(i))

RECURSIVE SeqsUpTo(_, _)
SeqsUpTo(S, n) ==
    IF n = 0 THEN {<<>>}
    ELSE LET shorter == SeqsUpTo(S, n - 1)
         IN shorter \cup {Append(s, x) : s \in {t \in shorter : Len(t) = n - 1}, x \in S}

\* the characters of the strings handed to firstKey and GetCacheKey
StrChars == {Slash, "0", "1", "a"}
Strs == SeqsUpTo(StrChars, MaxStrLen)

---------------------------------------------------------------------------
(* Configuration and construction *)

ConfigValues == (-4)..MaxBits

ValidBaseBucketBits(bits) == bits > 0 /\ bits % 4 = 0

\* a constructor that takes any configuration as it comes
NewStoragePackerV2Unchecked(bits) ==
    [status |-> "ready", BaseBucketBits |-> bits]

\* The constructor of StoragePackerV2 validates the configuration.
NewStoragePackerV2(bits) ==
    IF ValidBaseBucketBits(bits)
    THEN [status |-> "ready", BaseBucketBits |-> bits]
    ELSE [status |-> "rejected", BaseBucketBits |-> 0]

---------------------------------------------------------------------------
(* Hasher *)

IDs == {"a", "b", "c"}
\* the empty ID is an ID like any other
AnyIDs == IDs \cup {""}

\* GetItemIDHash: a fixed digest per ID, rendered in lowercase hex.  The
\* digest is cut to three nibbles; those of "a" and "c" share their first
\* nibble, so that the two IDs share a root bucket when BaseBucketBits is 4.
GetItemIDHash(itemID) ==
    CASE itemID = "a" -> <<"a", "3", "c">>
      [] itemID = "b" -> <<"1", "f", "0">>
      [] itemID = "c" -> <<"a", "0", "7">>
      [] OTHER -> <<"0", "e", "5">>

---------------------------------------------------------------------------
(* Batch preparer *)

\* an *Item of the storage layer
ItemOf(id) == [ID |-> id]

\* keysForIDs: one freshly allocated itemRequest per ID, in the caller's
\* order; ptr is the identity of the allocation.
keysForIDs(ids) ==
    [i \in 1..Len(ids) |->
        [ptr |-> i, ID |-> ids[i], Key |-> GetItemIDHash(ids[i]), Value |-> "nil"]]

\* keysForItems: the same, carrying the item
keysForItems(items) ==
    [i \in 1..Len(items) |->
        [ptr |-> i, ID |-> items[i].ID, Key |-> GetItemIDHash(items[i].ID),
         Value |-> items[i]]]

\* a less function that also holds of equal keys
LessOrEqual(data, i, j) == ~StrLess(data[j].Key, data[i].Key)

\* the closure handed to sort.Slice
Less(data, i, j) == StrLess(data[i].Key, data[j].Key)

Swap(data, i, j) == [data EXCEPT ![i] = data[j], ![j] = data[i]]

\* inner loop of insertion sort: for j := i; j > a && less(j, j-1); j--
RECURSIVE InsertDown(_, _)
InsertDown(data, j) ==
    IF j > 1 /\ Less(data, j, j - 1)
    THEN InsertDown(Swap(data, j, j - 1), j - 1)
    ELSE data

\* insertionSort(data, a, b), from (1-based) index i on
RECURSIVE InsertionSort(_, _)
InsertionSort(data, i) ==
    IF i > Len(data) THEN data
    ELSE InsertionSort(InsertDown(data, i), i + 1)

\* the ShellSort pass with gap 6 of quickSort, from (1-based) index i on
RECURSIVE ShellPass(_, _)
ShellPass(data, i) ==
    IF i > Len(data) THEN data
    ELSE ShellPass(IF Less(data, i, i - 6) THEN Swap(data, i, i - 6) ELSE data, i + 1)

Builds == {"quickSort", "pdqsort"}

\* sort.Slice on a slice of at most 12 elements.  Toolchains up to Go 1.18
\* run quickSort, which for such a slice is one ShellSort pass with gap 6
\* and then insertion sort; later ones run pdqsort, which for such a slice
\* is insertion sort alone.
SortSlice(data, b) ==
    IF Len(data) <= 1 THEN data
    ELSE IF b = "quickSort" THEN InsertionSort(ShellPass(data, 7), 2)
    ELSE InsertionSort(data, 2)

\* sorting the caller's slice itself
sortRequestsInPlace(requests, b) ==
    LET sorted == SortSlice(requests, b)
    IN [requests |-> sorted, ret |-> sorted]

\* returning the copy unsorted
sortRequestsNoSort(requests, b) ==
    [requests |-> requests, ret |-> requests]

\* sortRequests: requests is the caller's slice after the call, ret the
\* returned slice.  duplicate has a backing array of its own.
sortRequests(requests, b) ==
    LET duplicate == <<>> \o requests
    IN [requests |-> requests, ret |-> SortSlice(duplicate, b)]

\* the loop of checkForDuplicateIds from index i on, with the IDs seen so far
RECURSIVE DupScan(_, _, _)
DupScan(ids, i, idsSeen) ==
    IF i > Len(ids) THEN [found |-> FALSE, id |-> ""]
    ELSE IF ids[i] \in idsSeen THEN [found |-> TRUE, id |-> ids[i]]
    ELSE DupScan(ids, i + 1, idsSeen \cup {ids[i]})

\* reporting the last ID of the list whenever there is a duplicate
checkForDuplicateIdsLast(ids) ==
    LET r == DupScan(ids, 1, {})
    IN IF r.found THEN [found |-> TRUE, id |-> ids[Len(ids)]] ELSE r

checkForDuplicateIds(ids) == DupScan(ids, 1, {})

---------------------------------------------------------------------------
(* Bucket addresser *)

\* slicing one character short of the root shard length
firstKeyShort(bits, cacheKey) ==
    LET rootShardLength == GoDiv(bits, 4)
    IN IF Len(cacheKey) < rootShardLength - 1
       THEN [ret |-> cacheKey, err |-> "Key too short."]
       ELSE [ret |-> SubSeq(cacheKey, 1, Min(Len(cacheKey), rootShardLength)),
             err |-> "nil"]

\* refusing a key of exactly the root shard length
firstKeyStrict(bits, cacheKey) ==
    LET rootShardLength == GoDiv(bits, 4)
    IN IF Len(cacheKey) <= rootShardLength
       THEN [ret |-> cacheKey, err |-> "Key too short."]
       ELSE [ret |-> SubSeq(cacheKey, 1, rootShardLength), err |-> "nil"]

\* firstKey of a packer whose BaseBucketBits is bits.  Slicing up to a
\* negative index panics.
firstKey(bits, cacheKey) ==
    LET rootShardLength == GoDiv(bits, 4)
    IN IF Len(cacheKey) < rootShardLength
       THEN [ret |-> cacheKey, err |-> "Key too short."]
       ELSE IF GoDiv(bits, 4) < 0
       THEN [ret |-> <<>>, err |-> "panic"]
       ELSE [ret |-> SubSeq(cacheKey, 1, GoDiv(bits, 4)), err |-> "nil"]

\* starting the enumeration at one
getAllBaseBucketKeysFromOne(bits) ==
    LET numBuckets == Pow2(bits)
        rootBucketLength == GoDiv(bits, 4)
    IN [i \in 1..(numBuckets - 1) |-> SprintfHex(rootBucketLength, i)]

\* getAllBaseBucketKeys of a packer whose BaseBucketBits is bits; element i
\* of the result (1-based) is the bucket key of the loop's i - 1
getAllBaseBucketKeys(bits) ==
    LET numBuckets == Pow2(bits)
        rootBucketLength == GoDiv(bits, 4)
    IN [i \in 1..numBuckets |-> SprintfHex(rootBucketLength, i - 1)]

---------------------------------------------------------------------------
(* Cache key normalizer *)

\* strings.Replace(s, "/", "", n) with n < 0: every occurrence goes
RECURSIVE ReplaceAllSlash(_)
ReplaceAllSlash(s) ==
    IF s = <<>> THEN <<>>
    ELSE IF s[1] = Slash THEN ReplaceAllSlash(Tail(s))
    ELSE <<s[1]>> \o ReplaceAllSlash(Tail(s))

\* strings.Replace(s, "/", "", 1): only the first occurrence goes
RECURSIVE ReplaceFirstSlash(_)
ReplaceFirstSlash(s) ==
    IF s = <<>> THEN <<>>
    ELSE IF s[1] = Slash THEN Tail(s)
    ELSE <<s[1]>> \o ReplaceFirstSlash(Tail(s))

GetCacheKeyFirstOnly(key) == ReplaceFirstSlash(key)

GetCacheKey(key) == ReplaceAllSlash(key)

---------------------------------------------------------------------------
(* The packer and its helpers: a helper is called, its result is looked at, *)
(* and the call returns.                                                   *)

Batches == {1, 2}

NoCall == [op |-> "none"]

\* no helper call is in progress
Returned == {"none", "NewStoragePackerV2"}

IdleLocks ==
    /\ pc = [b \in Batches |-> "idle"]
    /\ batch = [b \in Batches |-> [ids |-> <<>>, requests |-> <<>>, sorted |-> <<>>]]
    /\ next = [b \in Batches |-> 1]
    /\ locks = {}

Init ==
    /\ status = "new"
    /\ BaseBucketBits = 0
    /\ build \in Builds
    /\ call = NoCall
    /\ IdleLocks

\* the process configures its packer, once
Configure ==
    /\ status = "new"
    /\ \E bits \in ConfigValues :
         LET s == NewStoragePackerV2(bits)
         IN /\ status' = s.status
            /\ BaseBucketBits' = s.BaseBucketBits
            /\ call' = [op |-> "NewStoragePackerV2", bits |-> bits]
    /\ UNCHANGED <<build, lockVars>>

CallFirstKey ==
    /\ status = "ready"
    /\ call.op \in Returned
    /\ \E cacheKey \in Strs :
         LET r == firstKey(BaseBucketBits, cacheKey)
         IN call' = [op |-> "firstKey", cacheKey |-> cacheKey,
                     ret |-> r.ret, err |-> r.err]
    /\ UNCHANGED <<packerVars, lockVars>>

CallGetAllBaseBucketKeys ==
    /\ status = "ready"
    /\ call.op \in Returned
    /\ call' = [op |-> "getAllBaseBucketKeys",
                ret |-> getAllBaseBucketKeys(BaseBucketBits)]
    /\ UNCHANGED <<packerVars, lockVars>>

CallGetCacheKey ==
    /\ status = "ready"
    /\ call.op \in Returned
    /\ \E key \in Strs :
         call' = [op |-> "GetCacheKey", key |-> key, ret |-> GetCacheKey(key),
                  again |-> FALSE]
    /\ UNCHANGED <<packerVars, lockVars>>

\* the result of GetCacheKey is normalized once more
CallGetCacheKeyAgain ==
    /\ call.op = "GetCacheKey"
    /\ ~call.again
    /\ call' = [op |-> "GetCacheKey", key |-> call.ret,
                ret |-> GetCacheKey(call.ret), again |-> TRUE]
    /\ UNCHANGED <<packerVars, lockVars>>

CallCheckForDuplicateIds ==
    /\ call.op \in Returned
    /\ \E ids \in SeqsUpTo(AnyIDs, MaxIds) :
         LET r == checkForDuplicateIds(ids)
         IN call' = [op |-> "checkForDuplicateIds", ids |-> ids,
                     found |-> r.found, id |-> r.id]
    /\ UNCHANGED <<packerVars, lockVars>>

CallKeysForIDs ==
    /\ status = "ready"
    /\ call.op \in Returned
    /\ \E ids \in SeqsUpTo(IDs, MaxBatch) :
         call' = [op |-> "keysForIDs", ids |-> ids, requests |-> keysForIDs(ids)]
    /\ UNCHANGED <<packerVars, lockVars>>

CallKeysForItems ==
    /\ status = "ready"
    /\ call.op \in Returned
    /\ \E ids \in SeqsUpTo(IDs, MaxBatch) :
         LET items == [i \in 1..Len(ids) |-> ItemOf(ids[i])]
         IN call' = [op |-> "keysForItems", ids |-> ids,
                     requests |-> keysForItems(items)]
    /\ UNCHANGED <<packerVars, lockVars>>

\* the caller sorts the requests it has just built
CallSortRequests ==
    /\ call.op \in {"keysForIDs", "keysForItems"}
    /\ LET r == sortRequests(call.requests, build)
       IN call' = [op |-> "sortRequests", ids |-> call.ids,
                   before |-> call.requests, requests |-> r.requests,
                   ret |-> r.ret]
    /\ UNCHANGED <<packerVars, lockVars>>

\* the call in progress returns
Return ==
    /\ call.op \notin Returned
    /\ call' = NoCall
    /\ UNCHANGED <<packerVars, lockVars>>

Next ==
    \/ Configure
    \/ CallFirstKey
    \/ CallGetAllBaseBucketKeys
    \/ CallGetCacheKey
    \/ CallGetCacheKeyAgain
    \/ CallCheckForDuplicateIds
    \/ CallKeysForIDs
    \/ CallKeysForItems
    \/ CallSortRequests
    \/ Return

Spec == Init /\ [][Next]_vars

---------------------------------------------------------------------------
(* Two concurrent batch operations on a constructed packer.  Each checks   *)
(* its IDs for duplicates, builds and sorts its requests, takes the lock   *)
(* of the root bucket of each request in the sorted order, and releases    *)
(* its locks when it holds them all.                                       *)

ValidConfigs == {bits \in ConfigValues : NewStoragePackerV2(bits).status = "ready"}

LockInit ==
    /\ status = "ready"
    /\ BaseBucketBits \in ValidConfigs
    /\ build \in Builds
    /\ call = NoCall
    /\ IdleLocks

Other(b) == CHOOSE o \in Batches : o # b

\* the root bucket whose lock batch b takes next
Target(b) == firstKey(BaseBucketBits, batch[b].sorted[next[b]].Key)

HeldBy(bucket, b) == <<bucket, b>> \in locks

\* A batch with a duplicate ID is rejected before anything else happens;
\* otherwise its requests are built and sorted.  All of this is local to
\* the batch.
Prepare(b) ==
    /\ pc[b] = "idle"
    /\ \E ids \in SeqsUpTo(IDs, MaxLockBatch) :
         IF checkForDuplicateIds(ids).found
         THEN /\ pc' = [pc EXCEPT ![b] = "rejected"]
              /\ batch' = [batch EXCEPT ![b].ids = ids]
         ELSE LET r == sortRequests(keysForIDs(ids), build)
              IN /\ batch' = [batch EXCEPT ![b] =
                                 [ids |-> ids, requests |-> r.requests, sorted |-> r.ret]]
                 /\ pc' = [pc EXCEPT ![b] = IF ids = <<>> THEN "locked" ELSE "locking"]
    /\ UNCHANGED <<packerVars, call, next, locks>>

\* blocks while the other batch holds the lock; a lock the batch already
\* holds is not taken twice
Lock(b) ==
    /\ pc[b] = "locking"
    /\ LET t == Target(b)
       IN IF t.err # "nil"
          THEN /\ pc' = [pc EXCEPT ![b] = "failed"]
               /\ locks' = {l \in locks : l[2] # b}
               /\ next' = next
          ELSE /\ ~HeldBy(t.ret, Other(b))
               /\ locks' = locks \cup {<<t.ret, b>>}
               /\ next' = [next EXCEPT ![b] = next[b] + 1]
               /\ pc' = [pc EXCEPT ![b] =
                            IF next[b] = Len(batch[b].sorted) THEN "locked" ELSE "locking"]
    /\ UNCHANGED <<packerVars, call, batch>>

Unlock(b) ==
    /\ pc[b] = "locked"
    /\ locks' = {l \in locks : l[2] # b}
    /\ pc' = [pc EXCEPT ![b] = "done"]
    /\ UNCHANGED <<packerVars, call, batch, next>>

BatchStep(b) == Prepare(b) \/ Lock(b) \/ Unlock(b)

LockNext == \E b \in Batches : BatchStep(b)

LockSpec == LockInit /\ [][LockNext]_vars

\* a runnable goroutine is scheduled, and a released mutex wakes its waiter
FairLockSpec == LockSpec /\ \A b \in Batches : WF_vars(BatchStep(b))

---------------------------------------------------------------------------
(* Properties *)

SortedByKey(rs) ==
    \A i, j \in 1..Len(rs) : i < j => ~StrLess(rs[j].Key, rs[i].Key)

Range(f) == {f[i] : i \in DOMAIN f}

\* every allocation of rs occurs once in ps: the requests differ in ptr
PermutationOf(ps, rs) ==
    /\ Len(ps) = Len(rs)
    /\ Range(ps) = Range(rs)
    /\ Cardinality(Range(ps)) = Len(ps)

HasTie(rs) == \E i, j \in 1..Len(rs) : i # j /\ rs[i].Key = rs[j].Key

\* requests of equal key come out in the order they went in (ptr is the
\* position in the input)
TiesKeepInputOrder(rs) ==
    \A i, j \in 1..Len(rs) :
        i < j /\ rs[i].Key = rs[j].Key => rs[i].ptr < rs[j].ptr

\* C1: sortRequests returns a sequence sorted ascending by Key that is a
\* permutation of its input, and leaves the input sequence as it was.
C1_NonDestructiveSort ==
    call.op = "sortRequests" =>
        /\ SortedByKey(call.ret)
        /\ PermutationOf(call.ret, call.before)
        /\ call.requests = call.before

\* a sort of a sequence with equal keys that had to move something
C1_Witness ==
    /\ call.op = "sortRequests"
    /\ HasTie(call.before)
    /\ call.ret # call.before
    /\ call.requests = call.before

Repeats(ids) == {j \in 1..Len(ids) : \E i \in 1..(j - 1) : ids[i] = ids[j]}

\* C4: checkForDuplicateIds returns (true, id) exactly when some ID occurs
\* more than once, id being the first ID in input order that repeats, and
\* (false, "") exactly when the IDs are pairwise distinct.
C4_DetectDuplicate ==
    call.op = "checkForDuplicateIds" =>
        LET rep == Repeats(call.ids)
        IN /\ call.found <=> rep # {}
           /\ call.found =>
                 call.id = call.ids[CHOOSE j \in rep : \A k \in rep : j <= k]
           /\ ~call.found => call.id = ""

\* two IDs repeat, and the one reported is not the one that occurs first
C4_Witness ==
    /\ call.op = "checkForDuplicateIds"
    /\ call.ids = <<"a", "b", "b", "a">>
    /\ call.found
    /\ call.id = "b"

HexChars == {HexChar(d) : d \in 0..15}

\* the number a string of hex digits denotes
RECURSIVE HexValue(_)
HexValue(s) ==
    IF s = <<>> THEN 0
    ELSE 16 * HexValue(SubSeq(s, 1, Len(s) - 1)) + (Ord(s[Len(s)]) - 2)

\* C5: getAllBaseBucketKeys returns 2^BaseBucketBits entries, all distinct,
\* each a zero-padded lowercase hex string of BaseBucketBits/4 characters,
\* in ascending order; for 8 bits these are the 256 strings "00" to "ff".
C5_AllRootBuckets ==
    call.op = "getAllBaseBucketKeys" =>
        LET ret == call.ret
        IN /\ Len(ret) = 2 ^ BaseBucketBits
           /\ Cardinality(Range(ret)) = Len(ret)
           /\ \A i \in 1..Len(ret) :
                 /\ Len(ret[i]) * 4 = BaseBucketBits
                 /\ Range(ret[i]) \subseteq HexChars
                 /\ HexValue(ret[i]) = i - 1
           /\ \A i \in 1..(Len(ret) - 1) : StrLess(ret[i], ret[i + 1])
           /\ BaseBucketBits = 8 =>
                 /\ Len(ret) = 256
                 /\ ret[1] = <<"0", "0">>
                 /\ ret[256] = <<"f", "f">>

\* the enumeration of the default configuration
C5_Witness ==
    /\ call.op = "getAllBaseBucketKeys"
    /\ BaseBucketBits = 8
    /\ Len(call.ret) = 256

\* C6: for a key of at least BaseBucketBits/4 characters firstKey returns,
\* without error, the first BaseBucketBits/4 characters of the key.
C6_RootBucketIsPrefix ==
    call.op = "firstKey" /\ Len(call.cacheKey) * 4 >= BaseBucketBits =>
        /\ call.err = "nil"
        /\ Len(call.ret) * 4 = BaseBucketBits
        /\ call.ret = SubSeq(call.cacheKey, 1, Len(call.ret))

\* a key of exactly the length of the prefix, and a longer one
C6_Witness ==
    /\ call.op = "firstKey"
    /\ Len(call.cacheKey) * 4 = BaseBucketBits
    /\ call.err = "nil"
    /\ call.ret = call.cacheKey

\* C7: for a key shorter than BaseBucketBits/4 characters firstKey signals
\* "Key too short.", and it never reports success with an address shorter
\* than BaseBucketBits/4 characters.
C7_KeyTooShort ==
    call.op = "firstKey" =>
        /\ Len(call.cacheKey) * 4 < BaseBucketBits => call.err = "Key too short."
        /\ call.err = "nil" => Len(call.ret) * 4 >= BaseBucketBits

\* a key one character short of the prefix
C7_Witness ==
    /\ call.op = "firstKey"
    /\ (Len(call.cacheKey) + 1) * 4 = BaseBucketBits
    /\ call.err = "Key too short."

NotSlash(c) == c # Slash

\* C10: GetCacheKey removes every "/" and keeps the other characters in
\* order; applied to its own result, or to a key without "/", it returns
\* its argument.
C10_CacheKeyIdempotent ==
    call.op = "GetCacheKey" =>
        /\ Slash \notin Range(call.ret)
        /\ call.ret = SelectSeq(call.key, NotSlash)
        /\ call.again => call.ret = call.key
        /\ Slash \notin Range(call.key) => call.ret = call.key

\* a key with two separators is flattened
C10_Witness ==
    /\ call.op = "GetCacheKey"
    /\ ~call.again
    /\ call.key = <<Slash, "a", Slash>>
    /\ call.ret = <<"a">>

Keys(rs) == [i \in 1..Len(rs) |-> rs[i].Key]

Ordered(b) == pc[b] \in {"locking", "locked", "done"}

\* C9: two batches that are permutations of the same distinct IDs get the
\* same sequence of keys from sortRequests, in ascending order.
C9_OrderIndependent ==
    \A b1, b2 \in Batches :
        /\ Ordered(b1) /\ Ordered(b2)
        /\ Len(batch[b1].ids) = Len(batch[b2].ids)
        /\ Range(batch[b1].ids) = Range(batch[b2].ids)
        => /\ Keys(batch[b1].sorted) = Keys(batch[b2].sorted)
           /\ \A i \in 1..(Len(batch[b1].sorted) - 1) :
                 StrLess(batch[b1].sorted[i].Key, batch[b1].sorted[i + 1].Key)

\* B1 = [x, y] and B2 = [y, x], both sorted
C9_Witness ==
    /\ Ordered(1) /\ Ordered(2)
    /\ Len(batch[1].ids) = 2
    /\ batch[2].ids = <<batch[1].ids[2], batch[1].ids[1]>>
    /\ Keys(batch[1].sorted) = Keys(batch[2].sorted)
    /\ Keys(batch[1].requests) # Keys(batch[2].requests)

\* batch b waits for a lock the other batch holds
Waiting(b) ==
    /\ pc[b] = "locking"
    /\ Target(b).err = "nil"
    /\ HeldBy(Target(b).ret, Other(b))

NoCircularWait == ~(Waiting(1) /\ Waiting(2))

\* C2: two batches that take their locks in the order of sortRequests never
\* wait for each other, and under fair scheduling each batch that has
\* started to take its locks comes to hold them all.
C2_NoDeadlock ==
    /\ []NoCircularWait
    /\ \A b \in Batches : (pc[b] = "locking") ~> (pc[b] = "locked")

\* batch 1 waits for batch 2, which was submitted in the opposite order
C2_Witness ==
    /\ Waiting(1)
    /\ Len(batch[1].ids) = 2
    /\ batch[2].ids = <<batch[1].ids[2], batch[1].ids[1]>>

====
